---- MODULE Spec2Model ----
(***************************************************************************)
(* Model of the parking3 backend.  The repository holds two entry files    *)
(* for the server: src/backend/app.js (bcrypt + JWT, GET /locations behind *)
(* authenticateJWT) and src/unnamed/part_000 (plaintext passwords, no      *)
(* token, POST /send-location, GET /login, GET /users).  A process runs    *)
(* one of them; the variable `server` says which.                          *)
(*                                                                         *)
(* The mongoose schemas ./models/User and ./models/Location are required   *)
(* by both files but are not among the sources; what the model needs of    *)
(* them (the unique email, the Number fields, createdAt) is taken from the *)
(* specification of the system.                                            *)
(***************************************************************************)
EXTENDS Integers, Sequences, FiniteSets, TLC

VARIABLES
    server,     \* "app.js" or "part_000": the entry file this process runs
    env,        \* process.env.NODE_ENV: "production" or "development"
    now,        \* Date.now(), milliseconds
    users,      \* the User collection, in insertion order
    locations,  \* the Location collection, in insertion order
    reg,        \* the POST /register requests in flight, one per slot
    resp,       \* the response to the last request answered in one step
    held,       \* the token the client holds: <<>> or <<token>>
    accepted,   \* POST /send-location requests that stored a sample in this run
    db,         \* state of the mongoose connection
    listening,  \* app.listen has been called
    exited,     \* process.exit has been called
    served      \* responses sent so far while the store was not connected

vars == <<server, env, now, users, locations, accepted, reg, resp, held, db, listening, exited, served>>

bootVars == <<db, listening, exited, served>>

----------------------------------------------------------------------------
(* Bounds of the model *)

\* POST /register requests of one run
NumReg == 2
\* of which, where logins and listings run beside them
NumAuthReg == 1
\* the clock stops after this many steps of an hour
MaxHours == 1
\* and here, after steps of a millisecond
MaxMs == 1
\* POST /send-location requests accepted in one run
MaxNew == 2
\* requests answered while the store is not connected that the run counts
MaxServed == 3

(* Program constants *)

\* bcrypt.hash(password, 10)
SaltRounds == 10
\* expiresIn: "1h", in seconds
ExpiresIn == 3600
\* .limit(10)
Limit == 10
\* samples in the Location collection when the process starts, where it
\* starts with some: the next submit fills the listing
Prefill == Limit - 1

\* latitude > 90
MaxLat == 90
\* longitude > 180
MaxLon == 180

JWT_SECRET == "process.env.JWT_SECRET"

Servers == {"app.js", "part_000"}

----------------------------------------------------------------------------
(* JavaScript values and helpers *)

\* !x for a string field of a JSON body: "" (and a missing field, which the
\* model writes "") is falsy
Falsy(s) == s = ""

Min(a, b) == IF a < b THEN a ELSE b

RECURSIVE SeqToSet(_)
SeqToSet(s) == IF s = <<>> THEN {} ELSE {Head(s)} \cup SeqToSet(Tail(s))

----------------------------------------------------------------------------
(* bcrypt *)

Salts == {"salt1", "salt2"}

\* a stored credential that is the plaintext itself
Plain(password) == [kind |-> "plain", salt |-> "", rounds |-> 0, of |-> password]

\* bcrypt.hash(password, rounds) with the salt bcrypt generated: an ideal
\* salted one-way hash, a different value for a different salt or password
BcryptHash(password, rounds, salt) ==
    [kind |-> "bcrypt", salt |-> salt, rounds |-> rounds, of |-> password]

\* bcrypt.compare(password, stored): re-hashes with the stored salt and cost;
\* a stored value that is not a bcrypt hash never compares equal
BcryptCompare(password, stored) ==
    /\ stored.kind = "bcrypt"
    /\ BcryptHash(password, stored.rounds, stored.salt) = stored

\* password === user.password
PlainEquals(password, stored) == stored.kind = "plain" /\ stored.of = password

----------------------------------------------------------------------------
(* jsonwebtoken *)

Hmac(payload, key) == [key |-> key, over |-> payload]

\* jwt.sign({id, email}, secret, {expiresIn: "1h"}): iat and exp in seconds
JwtSign(id, email, key, t) ==
    LET payload == [id |-> id, email |-> email,
                    iat |-> t \div 1000, exp |-> (t \div 1000) + ExpiresIn]
    IN [wellFormed |-> TRUE, payload |-> payload, sig |-> Hmac(payload, key)]

\* jwt.verify(token, secret, cb): err for a malformed token, a signature that
\* is not the secret's, or an expired token; otherwise the decoded payload
JwtVerify(token, key, t) ==
    IF ~token.wellFormed THEN [err |-> "jwt malformed", user |-> <<>>]
    ELSE IF token.sig # Hmac(token.payload, key)
         THEN [err |-> "invalid signature", user |-> <<>>]
    ELSE IF (t \div 1000) >= token.payload.exp
         THEN [err |-> "jwt expired", user |-> <<>>]
    ELSE [err |-> "", user |-> <<token.payload>>]

----------------------------------------------------------------------------
(* The User collection *)

UserByEmail(us, email) == {i \in 1..Len(us) : us[i].email = email}

\* User.findOne({ email }): <<>> for null, else the first match
FindOne(us, email) ==
    IF UserByEmail(us, email) = {} THEN <<>>
    ELSE <<us[CHOOSE i \in UserByEmail(us, email) :
                 \A j \in UserByEmail(us, email) : i <= j]>>

\* newUser.save() under the schema's unique email: a duplicate is refused
\* with a duplicate-key error, anything else is inserted with a fresh _id
UserSave(us, username, email, password) ==
    IF UserByEmail(us, email) # {}
    THEN [threw |-> TRUE, users |-> us]
    ELSE [threw |-> FALSE,
          users |-> Append(us, [id |-> Len(us) + 1, username |-> username,
                                email |-> email, password |-> password])]

----------------------------------------------------------------------------
(* The process: startup, the store connection, the listening socket *)

\* requests reach the handlers once app.listen has run and until process.exit
Up == listening /\ ~exited

\* mongoose buffers a model's operation until the connection is open
Connected == db = "connected"

\* a response is sent: counted when the store is not connected
Responds(responded) ==
    /\ (responded /\ ~Connected) => served < MaxServed
    /\ served' = IF responded /\ ~Connected THEN served + 1 ELSE served
    /\ UNCHANGED <<db, listening, exited>>

----------------------------------------------------------------------------
(* POST /register *)

RegisterBodies ==
    { [username |-> "alice", email |-> "a@x.com", password |-> "secret1"],
      [username |-> "bob",   email |-> "a@x.com", password |-> "hunter2"],
      [username |-> "carol", email |-> "c@x.com", password |-> "secret1"],
      [username |-> "dave",  email |-> "",        password |-> "secret1"] }

IdleReg ==
    [pc |-> "idle", body |-> [username |-> "", email |-> "", password |-> ""],
     password |-> Plain(""), status |-> 0, error |-> ""]

\* the requests, numbered in the order they arrive
Slots == 1..NumReg
AuthSlots == 1..NumAuthReg

\* the handler up to its first await: the required-fields check, then
\* User.findOne is issued
RegisterBegin(r, body) ==
    /\ Up
    /\ reg[r].pc = "idle"
    /\ r > 1 => reg[r - 1].pc # "idle"
    /\ Responds(Falsy(body.username) \/ Falsy(body.email) \/ Falsy(body.password))
    /\ IF Falsy(body.username) \/ Falsy(body.email) \/ Falsy(body.password)
       THEN reg' = [reg EXCEPT ![r] = [@ EXCEPT !.pc = "done", !.body = body,
                        !.status = 400, !.error = "All fields are required"]]
       ELSE reg' = [reg EXCEPT ![r] = [@ EXCEPT !.pc = "findOne", !.body = body]]
    /\ UNCHANGED <<server, env, now, locations, accepted, users, resp, held>>

\* User.findOne resolves: an existing user ends the request with 400;
\* otherwise app.js goes on to bcrypt.hash, part_000 keeps the password as
\* it came and goes on to save
RegisterFindOne(r) ==
    /\ Up /\ Connected
    /\ reg[r].pc = "findOne"
    /\ Responds(FindOne(users, reg[r].body.email) # <<>>)
    /\ IF FindOne(users, reg[r].body.email) # <<>>
       THEN reg' = [reg EXCEPT ![r] = [@ EXCEPT !.pc = "done", !.status = 400,
                        !.error = "Email is already registered"]]
       ELSE IF server = "app.js"
            THEN reg' = [reg EXCEPT ![r] = [@ EXCEPT !.pc = "hash"]]
            ELSE reg' = [reg EXCEPT ![r] = [@ EXCEPT !.pc = "save",
                             !.password = Plain(reg[r].body.password)]]
    /\ UNCHANGED <<server, env, now, locations, accepted, users, resp, held>>

\* app.js: bcrypt.hash(password, 10) resolves
RegisterHash(r) ==
    /\ Up
    /\ reg[r].pc = "hash"
    /\ Responds(FALSE)
    /\ \E salt \in Salts :
         reg' = [reg EXCEPT ![r] = [@ EXCEPT !.pc = "save",
                     !.password = BcryptHash(reg[r].body.password, SaltRounds, salt)]]
    /\ UNCHANGED <<server, env, now, locations, accepted, users, resp, held>>

\* a registration that writes with an upsert on the email
RegisterSaveUpsert(r) ==
    /\ Up /\ Connected
    /\ reg[r].pc = "save"
    /\ Responds(TRUE)
    /\ LET hit == UserByEmail(users, reg[r].body.email)
           rec(id) == [id |-> id, username |-> reg[r].body.username,
                       email |-> reg[r].body.email, password |-> reg[r].password]
       IN users' = IF hit = {} THEN Append(users, rec(Len(users) + 1))
                   ELSE [i \in 1..Len(users) |->
                           IF i \in hit THEN rec(users[i].id) ELSE users[i]]
    /\ reg' = [reg EXCEPT ![r] = [@ EXCEPT !.pc = "done", !.status = 201,
                                            !.error = ""]]
    /\ UNCHANGED <<server, env, now, locations, accepted, resp, held>>

\* newUser.save() resolves or rejects: 201, or the catch block's 500
RegisterSave(r) ==
    /\ Up /\ Connected
    /\ reg[r].pc = "save"
    /\ Responds(TRUE)
    /\ LET out == UserSave(users, reg[r].body.username, reg[r].body.email,
                           reg[r].password)
       IN /\ users' = out.users
          /\ IF out.threw
             THEN reg' = [reg EXCEPT ![r] = [@ EXCEPT !.pc = "done",
                              !.status = 500, !.error = "Server error"]]
             ELSE reg' = [reg EXCEPT ![r] = [@ EXCEPT !.pc = "done",
                              !.status = 201, !.error = ""]]
    /\ UNCHANGED <<server, env, now, locations, accepted, resp, held>>

----------------------------------------------------------------------------
(* Responses of the requests answered in one step *)

NoCreds == [email |-> "", password |-> ""]
NoHeader == [present |-> FALSE, scheme |-> "", token |-> <<>>]
NoBody == [latitude |-> [t |-> "undefined", n |-> 0],
           longitude |-> [t |-> "undefined", n |-> 0]]

NoResp ==
    [op |-> "none", path |-> "", status |-> 0, error |-> "",
     creds |-> NoCreds, header |-> NoHeader, body |-> NoBody,
     token |-> <<>>, user |-> <<>>, reqUser |-> <<>>,
     list |-> <<>>, location |-> <<>>,
     handlerRan |-> FALSE, storeReads |-> 0, storeWrites |-> 0]

\* what the responses show of a user: never the password
PublicUser(u) == [id |-> u.id, username |-> u.username, email |-> u.email]

----------------------------------------------------------------------------
(* POST /login *)

LoginInputs ==
    { [email |-> "a@x.com", password |-> "secret1"],
      [email |-> "a@x.com", password |-> "hunter2"],
      [email |-> "c@x.com", password |-> "secret1"],
      [email |-> "z@x.com", password |-> "secret1"],
      [email |-> "",        password |-> "secret1"],
      [email |-> "a@x.com", password |-> ""] }

\* a comparison that accepts every password
PasswordValidAlways(srv, password, stored) == TRUE

\* app.js compares with bcrypt.compare, part_000 with ===
PasswordValid(srv, password, stored) ==
    IF srv = "app.js" THEN BcryptCompare(password, stored)
    ELSE PlainEquals(password, stored)

\* the whole handler: its reads are of records that are never changed or
\* removed, so the awaits between them cannot be observed
LoginResult(srv, us, creds, t) ==
    LET base == [NoResp EXCEPT !.op = "login", !.creds = creds,
                               !.handlerRan = TRUE]
        found == FindOne(us, creds.email)
    IN IF Falsy(creds.email) \/ Falsy(creds.password)
       THEN [base EXCEPT !.status = 400,
                         !.error = "Email and password are required"]
       ELSE IF found = <<>>
       THEN [base EXCEPT !.status = 404, !.error = "User not found",
                         !.storeReads = 1]
       ELSE IF ~PasswordValid(srv, creds.password, found[1].password)
       THEN [base EXCEPT !.status = 401, !.error = "Invalid email or password",
                         !.storeReads = 1]
       ELSE [base EXCEPT !.status = 200, !.storeReads = 1,
                 !.user = <<PublicUser(found[1])>>,
                 !.token = IF srv = "app.js"
                           THEN <<JwtSign(found[1].id, found[1].email,
                                          JWT_SECRET, t)>>
                           ELSE <<>>]

Login(creds) ==
    /\ Up
    /\ LoginResult(server, users, creds, now).storeReads = 0 \/ Connected
    /\ Responds(TRUE)
    /\ resp' = LoginResult(server, users, creds, now)
    /\ held' = IF resp'.token # <<>> THEN resp'.token ELSE held
    /\ UNCHANGED <<server, env, now, users, locations, accepted, reg>>

\* part_000's GET /login: credentials from the query string; bcrypt is never
\* required in that file, so reaching bcrypt.compare throws a ReferenceError
\* that the catch block answers with 500
LoginGetResult(us, creds) ==
    LET base == [NoResp EXCEPT !.op = "loginGet", !.creds = creds,
                               !.handlerRan = TRUE]
    IN IF Falsy(creds.email) \/ Falsy(creds.password)
       THEN [base EXCEPT !.status = 400,
                         !.error = "Email and password are required"]
       ELSE IF FindOne(us, creds.email) = <<>>
       THEN [base EXCEPT !.status = 404, !.error = "User not found",
                         !.storeReads = 1]
       ELSE [base EXCEPT !.status = 500, !.error = "Server error",
                         !.storeReads = 1]

LoginGet(creds) ==
    /\ Up
    /\ server = "part_000"
    /\ LoginGetResult(users, creds).storeReads = 0 \/ Connected
    /\ Responds(TRUE)
    /\ resp' = LoginGetResult(users, creds)
    /\ UNCHANGED <<server, env, now, users, locations, accepted, reg, held>>

----------------------------------------------------------------------------
(* authenticateJWT *)

Malformed ==
    [wellFormed |-> FALSE,
     payload |-> [id |-> 0, email |-> "", iat |-> 0, exp |-> 0],
     sig |-> Hmac([id |-> 0, email |-> "", iat |-> 0, exp |-> 0], "")]

\* a token whose payload was altered after signing
Tamper(token) == [token EXCEPT !.payload.id = token.payload.id + 1]

\* the Authorization headers a client can send, given the token it holds
Headers(h, t) ==
    { NoHeader,
      [present |-> TRUE, scheme |-> "Bearer", token |-> <<>>],
      [present |-> TRUE, scheme |-> "Bearer", token |-> <<Malformed>>],
      [present |-> TRUE, scheme |-> "Bearer",
       token |-> <<JwtSign(1, "a@x.com", "not the secret", t)>>] }
    \cup { [present |-> TRUE, scheme |-> s, token |-> h] :
              s \in IF h = <<>> THEN {} ELSE {"Bearer", "Basic", ""} }
    \cup { [present |-> TRUE, scheme |-> "Bearer", token |-> <<Tamper(h[i])>>] :
              i \in 1..Len(h) }

\* req.headers.authorization?.split(" ")[1]: the second word, whatever the
\* first is; a header of one word has none
SecondWord(header) ==
    IF ~header.present \/ header.scheme = "" THEN <<>> ELSE header.token

\* a gate that decodes the token without verifying it
AuthenticateJWTDecodeOnly(header, t) ==
    LET token == SecondWord(header)
    IN IF token = <<>>
       THEN [status |-> 401, error |-> "Access denied. No token provided.",
             user |-> <<>>]
       ELSE [status |-> 0, error |-> "", user |-> <<token[1].payload>>]

\* status 0 stands for next() having been called with req.user set
AuthenticateJWT(header, t) ==
    LET token == SecondWord(header)
    IN IF token = <<>>
       THEN [status |-> 401, error |-> "Access denied. No token provided.",
             user |-> <<>>]
       ELSE IF JwtVerify(token[1], JWT_SECRET, t).err # ""
       THEN [status |-> 403, error |-> "Invalid token.", user |-> <<>>]
       ELSE [status |-> 0, error |-> "",
             user |-> JwtVerify(token[1], JWT_SECRET, t).user]

----------------------------------------------------------------------------
(* JSON values of latitude and longitude, as JavaScript coerces them *)

Num(n) == [t |-> "number", n |-> n]
\* 1e999 in a JSON body parses to Infinity
Infinity == [t |-> "infinity", n |-> 0]
Undefined == [t |-> "undefined", n |-> 0]
Null == [t |-> "null", n |-> 0]
\* a string that reads as the number n, such as "12"
NumStr(n) == [t |-> "string", n |-> n]
\* a string that reads as no number, such as "abc"
NanStr == [t |-> "nanstring", n |-> 0]

\* ToNumber: what isFinite and the relational operators see
ToNumber(v) ==
    CASE v.t = "number" -> [k |-> "finite", n |-> v.n]
      [] v.t = "string" -> [k |-> "finite", n |-> v.n]
      [] v.t = "null" -> [k |-> "finite", n |-> 0]
      [] v.t = "infinity" -> [k |-> "infinity", n |-> 0]
      [] OTHER -> [k |-> "NaN", n |-> 0]

\* x == null
LooseNull(v) == v.t \in {"undefined", "null"}

\* the global isFinite(x): coerces, then tests
IsFinite(v) == ToNumber(v).k = "finite"

\* x < k and x > k for a finite k: false for NaN
Less(v, k) == ToNumber(v).k = "finite" /\ ToNumber(v).n < k
Greater(v, k) ==
    \/ ToNumber(v).k = "infinity"
    \/ ToNumber(v).k = "finite" /\ ToNumber(v).n > k

----------------------------------------------------------------------------
(* The Location collection *)

\* the Number fields of the schema cast what they are given; createdAt is
\* the time of the write and _id is fresh
LocationSave(store, latitude, longitude, t) ==
    Append(store, [id |-> Len(store) + 1,
                   latitude |-> ToNumber(latitude).n,
                   longitude |-> ToNumber(longitude).n,
                   createdAt |-> t])

Newest(S) == {x \in S : \A y \in S : y.createdAt <= x.createdAt}

\* every order a sort by createdAt descending can return: documents with
\* the same createdAt come in any order
RECURSIVE Orders(_)
Orders(S) ==
    IF S = {} THEN {<<>>}
    ELSE UNION { { <<x>> \o rest : rest \in Orders(S \ {x}) } : x \in Newest(S) }

\* the same query sorting by createdAt ascending
FindSortAscLimit(store) ==
    { LET n == Len(o)
      IN [k \in 1..Min(Limit, n) |-> o[n + 1 - k]] : o \in Orders(SeqToSet(store)) }

\* the same query without its limit
FindSort(store) == Orders(SeqToSet(store))

\* Location.find().sort("-createdAt").limit(10)
FindSortLimit(store) ==
    { SubSeq(o, 1, Min(Limit, Len(o))) : o \in Orders(SeqToSet(store)) }

----------------------------------------------------------------------------
(* POST /send-location (part_000) *)

LocationBodies ==
    { [latitude |-> Num(MaxLat),       longitude |-> Num(MaxLon)],
      [latitude |-> Num(-MaxLat),      longitude |-> Num(-MaxLon)],
      [latitude |-> NumStr(12),        longitude |-> NumStr(34)],
      [latitude |-> Num(MaxLat + 1),   longitude |-> Num(0)],
      [latitude |-> Num(-MaxLat - 1),  longitude |-> Num(0)],
      [latitude |-> Num(0),            longitude |-> Num(MaxLon + 1)],
      [latitude |-> Num(0),            longitude |-> Num(-MaxLon - 1)],
      [latitude |-> Undefined,         longitude |-> Num(0)],
      [latitude |-> Num(0),            longitude |-> Null],
      [latitude |-> Infinity,          longitude |-> Num(0)],
      [latitude |-> Num(0),            longitude |-> NanStr] }

\* the three checks before the save: "" when the body passes
ValidateLocation(body) ==
    IF LooseNull(body.latitude) \/ LooseNull(body.longitude)
    THEN "Missing required fields"
    ELSE IF ~IsFinite(body.latitude) \/ Less(body.latitude, -MaxLat)
            \/ Greater(body.latitude, MaxLat)
    THEN "Invalid latitude value"
    ELSE IF ~IsFinite(body.longitude) \/ Less(body.longitude, -MaxLon)
            \/ Greater(body.longitude, MaxLon)
    THEN "Invalid longitude value"
    ELSE ""

SendLocation(body) ==
    /\ Up
    /\ server = "part_000"
    /\ ValidateLocation(body) # "" \/ Connected
    /\ Responds(TRUE)
    /\ IF ValidateLocation(body) # ""
       THEN /\ resp' = [NoResp EXCEPT !.op = "send-location", !.body = body,
                            !.handlerRan = TRUE, !.status = 400,
                            !.error = ValidateLocation(body)]
            /\ UNCHANGED <<locations, accepted>>
       ELSE /\ accepted < MaxNew
            /\ locations' = LocationSave(locations, body.latitude,
                                         body.longitude, now)
            /\ accepted' = accepted + 1
            /\ resp' = [NoResp EXCEPT !.op = "send-location", !.body = body,
                            !.handlerRan = TRUE, !.status = 200,
                            !.storeWrites = 1,
                            !.location = <<locations'[Len(locations')]>>]
    /\ UNCHANGED <<server, env, now, users, reg, held>>

----------------------------------------------------------------------------
(* GET /locations: behind authenticateJWT in app.js, open in part_000 *)

Gate(srv, header, t) ==
    IF srv = "app.js" THEN AuthenticateJWT(header, t)
    ELSE [status |-> 0, error |-> "", user |-> <<>>]

GetLocations(header) ==
    /\ Up
    /\ Gate(server, header, now).status # 0 \/ Connected
    /\ Responds(TRUE)
    /\ LET gate == Gate(server, header, now)
           base == [NoResp EXCEPT !.op = "locations",
                        !.header = IF server = "app.js" THEN header ELSE NoHeader]
       IN IF gate.status # 0
          THEN resp' = [base EXCEPT !.status = gate.status, !.error = gate.error]
          ELSE \E list \in FindSortLimit(locations) :
                 resp' = [base EXCEPT !.status = 200, !.handlerRan = TRUE,
                              !.storeReads = 1, !.reqUser = gate.user,
                              !.list = list]
    /\ UNCHANGED <<server, env, now, users, locations, accepted, reg, held>>

----------------------------------------------------------------------------
(* Time *)

TickHour ==
    /\ now + ExpiresIn * 1000 <= MaxHours * ExpiresIn * 1000
    /\ now' = now + ExpiresIn * 1000
    /\ UNCHANGED <<server, env, users, locations, accepted, reg, resp, held, bootVars>>

TickMs ==
    /\ now < MaxMs
    /\ now' = now + 1
    /\ UNCHANGED <<server, env, users, locations, accepted, reg, resp, held, bootVars>>

----------------------------------------------------------------------------
(* Startup *)

\* app.listen(port): called as the file is loaded, right after
\* mongoose.connect was called and before its promise settles
Listen ==
    /\ ~listening /\ ~exited
    /\ listening' = TRUE
    /\ UNCHANGED <<server, env, now, users, locations, accepted, reg, resp, held,
                   db, exited, served>>

\* mongoose.connect resolves
ConnectOk ==
    /\ db = "connecting" /\ ~exited
    /\ db' = "connected"
    /\ UNCHANGED <<server, env, now, users, locations, accepted, reg, resp, held,
                   listening, exited, served>>

\* mongoose.connect rejects: process.exit(1)
ConnectFail ==
    /\ db = "connecting" /\ ~exited
    /\ db' = "failed"
    /\ exited' = TRUE
    /\ UNCHANGED <<server, env, now, users, locations, accepted, reg, resp, held,
                   listening, served>>

----------------------------------------------------------------------------
(* Specifications *)

\* samples left in the collection by earlier runs, one a millisecond, the
\* last one a millisecond before this run starts
Stored(k) ==
    [i \in 1..k |-> [id |-> i, latitude |-> 0, longitude |-> 0,
                     createdAt |-> i - k - 1]]

\* a user registered by an earlier run of the same entry file
Alice(srv) ==
    [id |-> 1, username |-> "alice", email |-> "a@x.com",
     password |-> IF srv = "app.js"
                  THEN BcryptHash("secret1", SaltRounds, "salt1")
                  ELSE Plain("secret1")]

Running == db = "connected" /\ listening = TRUE /\ exited = FALSE /\ served = 0

\* outside production neither file serves the client: the routes are all
\* there is
Development == env = "development"

\* a running server with empty stores
InitAuth ==
    /\ server \in Servers
    /\ now = 0
    /\ users = <<>>
    /\ locations = <<>>
    /\ accepted = 0
    /\ reg = [r \in Slots |-> IdleReg]
    /\ resp = NoResp
    /\ held = <<>>
    /\ Running
    /\ Development

\* concurrent registrations
NextReg ==
    \/ \E r \in Slots, body \in RegisterBodies : RegisterBegin(r, body)
    \/ \E r \in Slots : RegisterFindOne(r)
    \/ \E r \in Slots : RegisterHash(r)
    \/ \E r \in Slots : RegisterSave(r)

Spec == InitAuth /\ [][NextReg]_vars

\* registration, login and the gate
NextAuth ==
    \/ \E r \in AuthSlots, body \in RegisterBodies : RegisterBegin(r, body)
    \/ \E r \in AuthSlots : RegisterFindOne(r)
    \/ \E r \in AuthSlots : RegisterHash(r)
    \/ \E r \in AuthSlots : RegisterSave(r)
    \/ \E creds \in LoginInputs : Login(creds)
    \/ \E creds \in LoginInputs : LoginGet(creds)
    \/ \E header \in Headers(held, now) : GetLocations(header)
    \/ TickHour

SpecAuth == InitAuth /\ [][NextAuth]_vars

\* the location routes, on a running server whose client is logged in
InitLoc ==
    /\ server \in Servers
    /\ now = 0
    /\ users = <<Alice(server)>>
    /\ locations \in {Stored(0), Stored(Prefill)}
    /\ accepted = 0
    /\ reg = [r \in Slots |-> IdleReg]
    /\ resp = NoResp
    /\ held = IF server = "app.js"
              THEN <<JwtSign(1, "a@x.com", JWT_SECRET, 0)>> ELSE <<>>
    /\ Running
    /\ Development

NextLoc ==
    \/ \E body \in LocationBodies : SendLocation(body)
    \/ \E header \in Headers(held, now) : GetLocations(header)
    \/ TickMs

SpecLoc == InitLoc /\ [][NextLoc]_vars

\* the process from the moment its entry file has been loaded
InitBoot ==
    /\ server \in Servers
    /\ now = 0
    /\ users = <<>>
    /\ locations = <<>>
    /\ accepted = 0
    /\ reg = [r \in Slots |-> IdleReg]
    /\ resp = NoResp
    /\ held = <<>>
    /\ db = "connecting" /\ listening = FALSE /\ exited = FALSE /\ served = 0
    /\ Development

NextBoot ==
    \/ Listen
    \/ ConnectOk
    \/ ConnectFail
    \/ \E r \in AuthSlots, body \in RegisterBodies : RegisterBegin(r, body)
    \/ \E r \in AuthSlots : RegisterFindOne(r)
    \/ \E r \in AuthSlots : RegisterHash(r)
    \/ \E r \in AuthSlots : RegisterSave(r)
    \/ \E creds \in LoginInputs : Login(creds)

SpecBoot == InitBoot /\ [][NextBoot]_vars

----------------------------------------------------------------------------
(* Routing: the middleware and routes in the order each file registers them *)

Route(method, path, handler) ==
    [kind |-> "route", method |-> method, path |-> path, handler |-> handler]

\* express.static(frontendPath)
Static == [kind |-> "static", method |-> "GET", path |-> "", handler |-> "static"]

\* app.get("*", ...): res.sendFile(index.html)
Fallback == [kind |-> "route", method |-> "GET", path |-> "*", handler |-> "spa"]

\* the files of frontend/dist that express.static finds; "/" is its index
DistFiles == {"/", "/index.html", "/assets/index.js"}

\* app.js registers its routes first and, in production, the static
\* middleware and the catch-all after them; part_000 registers the static
\* middleware and the catch-all, in production, before any of its routes
Layers(srv, mode) ==
    LET spa == IF mode = "production" THEN <<Static, Fallback>> ELSE <<>>
    IN IF srv = "app.js"
       THEN <<Route("POST", "/register", "register"),
              Route("POST", "/login", "login"),
              Route("GET", "/locations", "locations")>> \o spa
       ELSE spa \o
            <<Route("POST", "/send-location", "send-location"),
              Route("GET", "/locations", "locations"),
              Route("GET", "/users", "users"),
              Route("POST", "/register", "register"),
              Route("POST", "/login", "login"),
              Route("GET", "/login", "loginGet")>>

\* whether a layer answers the request: a route by its method and path, "*"
\* for every path; the static middleware by a file of that path
Matches(layer, method, path) ==
    /\ layer.method = method
    /\ IF layer.kind = "static" THEN path \in DistFiles
       ELSE layer.path = path \/ layer.path = "*"

\* the router: the first layer, in registration order, that matches; when
\* none does, express answers 404
Dispatch(layers, method, path) ==
    LET hits == {i \in 1..Len(layers) : Matches(layers[i], method, path)}
    IN IF hits = {} THEN "none"
       ELSE layers[CHOOSE i \in hits : \A j \in hits : i <= j].handler

GetPaths ==
    {"/locations", "/users", "/login", "/register", "/",
     "/assets/index.js", "/dashboard"}

\* part_000's GET /users: User.find({}, { password: 0 })
GetUsers ==
    /\ Up /\ Connected
    /\ server = "part_000"
    /\ Responds(TRUE)
    /\ resp' = [NoResp EXCEPT !.op = "users", !.status = 200,
                    !.handlerRan = TRUE, !.storeReads = 1,
                    !.list = [i \in 1..Len(users) |-> PublicUser(users[i])]]
    /\ UNCHANGED <<server, env, now, users, locations, accepted, reg, held>>

\* an answer that comes from no handler of the API: a file, the client's
\* entry document, or express's 404
Plainly(op, path, status) ==
    /\ Up
    /\ Responds(TRUE)
    /\ resp' = [NoResp EXCEPT !.op = op, !.path = path, !.status = status]
    /\ UNCHANGED <<server, env, now, users, locations, accepted, reg, held>>

\* a GET request, answered by the layer the router picks
HttpGet(path, header, creds) ==
    LET handler == Dispatch(Layers(server, env), "GET", path)
    IN \/ handler = "locations" /\ GetLocations(header)
       \/ handler = "users" /\ GetUsers
       \/ handler = "loginGet" /\ LoginGet(creds)
       \/ handler = "static" /\ Plainly("static", path, 200)
       \/ handler = "spa" /\ Plainly("spa", path, 200)
       \/ handler = "none" /\ Plainly("notFound", path, 404)

\* a running server in either mode, with a registered user whose client is
\* logged in
InitRoute ==
    /\ server \in Servers
    /\ env \in {"development", "production"}
    /\ now = 0
    /\ users = <<Alice(server)>>
    /\ locations \in {Stored(0), Stored(1)}
    /\ accepted = 0
    /\ reg = [r \in Slots |-> IdleReg]
    /\ resp = NoResp
    /\ held = IF server = "app.js"
              THEN <<JwtSign(1, "a@x.com", JWT_SECRET, 0)>> ELSE <<>>
    /\ Running

NextRoute ==
    \/ \E path \in GetPaths, header \in Headers(held, now), creds \in LoginInputs :
         HttpGet(path, header, creds)
    \/ TickHour

SpecRoute == InitRoute /\ [][NextRoute]_vars

----------------------------------------------------------------------------
(* Claims *)

Done(r) == reg[r].pc = "done"

\* C1: of two POST /register requests with the same email and valid fields,
\* whatever the interleaving of their findOne and save, at most one is
\* answered 201 and every other one is answered with the conflict error
\* (400 or 409, "Email is already registered"): never a second 201, never
\* the generic 500.
C1_DuplicateGetsConflict ==
    \A r1, r2 \in Slots :
        (r1 # r2 /\ Done(r1) /\ Done(r2)
         /\ ~Falsy(reg[r1].body.username) /\ ~Falsy(reg[r2].body.username)
         /\ ~Falsy(reg[r1].body.password) /\ ~Falsy(reg[r2].body.password)
         /\ ~Falsy(reg[r1].body.email)
         /\ reg[r1].body.email = reg[r2].body.email)
        => /\ ~(reg[r1].status = 201 /\ reg[r2].status = 201)
           /\ \A r \in {r1, r2} :
                \/ reg[r].status = 201
                \/ /\ reg[r].status \in {400, 409}
                   /\ reg[r].error = "Email is already registered"

\* the case of C1: two requests for one email were both past findOne before
\* either had saved, and both have been answered
C1_BothPassedFindOne ==
    \E r1, r2 \in Slots :
        /\ r1 # r2 /\ Done(r1) /\ Done(r2)
        /\ reg[r1].body.email = reg[r2].body.email
        /\ reg[r1].status = 201 /\ reg[r2].status = 500

\* C2: the User collection never holds two records with one email, a stored
\* record is never changed or removed, and a record is only ever added for
\* an email that had none: a second registration of an email neither
\* overwrites nor adds.
C2_Unique ==
    \A i, j \in 1..Len(users) : users[i].email = users[j].email => i = j

C2_NoOverwrite ==
    /\ Len(users') >= Len(users)
    /\ \A i \in 1..Len(users) : users'[i] = users[i]
    /\ Len(users') <= Len(users) + 1
    /\ Len(users') = Len(users) + 1
         => UserByEmail(users, users'[Len(users')].email) = {}

C2_OneUserPerEmail == []C2_Unique /\ [][C2_NoOverwrite]_vars

\* the case of C2: the same email was registered twice, one request after
\* the other, and one record with it is stored
C2_SecondRegistrationRefused ==
    \E r1, r2 \in Slots :
        /\ r1 # r2 /\ Done(r1) /\ Done(r2)
        /\ reg[r1].body.email = reg[r2].body.email
        /\ reg[r1].status = 201 /\ reg[r2].status = 400
        /\ reg[r2].error = "Email is already registered"
        /\ Cardinality(UserByEmail(users, reg[r1].body.email)) = 1

\* the user a successful registration of these credentials stored
RegisteredAs(creds) ==
    { i \in 1..Len(users) :
        /\ users[i].email = creds.email
        /\ \E r \in Slots :
             /\ Done(r) /\ reg[r].status = 201
             /\ reg[r].body.email = creds.email
             /\ reg[r].body.password = creds.password }

\* C3: a login with the email and password of an earlier successful
\* registration is answered 200 with a token, and the gate's verification of
\* that token yields the id and email of the registered user's record.
C3_LoginStep(creds) ==
    (resp'.op = "login" /\ resp'.creds = creds /\ Login(creds)
     /\ RegisteredAs(creds) # {})
    => /\ resp'.status = 200
       /\ resp'.token # <<>>
       /\ LET gate == AuthenticateJWT(
                         [present |-> TRUE, scheme |-> "Bearer",
                          token |-> resp'.token], now)
          IN /\ gate.status = 0
             /\ \A i \in RegisteredAs(creds) :
                  /\ gate.user[1].id = users[i].id
                  /\ gate.user[1].email = users[i].email

C3_RoundTrip == [][\A creds \in LoginInputs : C3_LoginStep(creds)]_vars

\* C4: every stored password is the salted hash of the password given at
\* registration, never the password itself, and every login compares the
\* supplied password with it by hash verification.
C4_StoredAsHash ==
    \A i \in 1..Len(users) :
        /\ users[i].password.kind = "bcrypt"
        /\ users[i].password.salt \in Salts
        /\ \E r \in Slots :
             /\ Done(r) /\ reg[r].status = 201
             /\ reg[r].body.email = users[i].email
             /\ users[i].password =
                  BcryptHash(reg[r].body.password, SaltRounds,
                             users[i].password.salt)

C4_LoginVerifiesHash(creds) ==
    (resp'.op = "login" /\ resp'.creds = creds /\ Login(creds)
     /\ resp'.status \in {200, 401})
    => (resp'.status = 200
          <=> BcryptCompare(creds.password,
                            FindOne(users, creds.email)[1].password))

C4_NeverPlaintext ==
    /\ []C4_StoredAsHash
    /\ [][\A creds \in LoginInputs : C4_LoginVerifiesHash(creds)]_vars

\* the passwords with which the stored user of this email was registered
RegisteredPasswords(email) ==
    { reg[r].body.password : r \in { q \in Slots :
        Done(q) /\ reg[q].status = 201 /\ reg[q].body.email = email } }

\* C5: a POST /login with both fields non-empty is answered 404 when no
\* stored user has the email and 401 when a user has it but was registered
\* with another password; in both cases the response carries no token, the
\* client is given none and the User collection is as it was.
C5_LoginStep(creds) ==
    (resp'.op = "login" /\ resp'.creds = creds /\ Login(creds)
     /\ ~Falsy(creds.email) /\ ~Falsy(creds.password))
    => /\ UserByEmail(users, creds.email) = {}
            => (resp'.status = 404 /\ resp'.token = <<>> /\ held' = held)
       /\ (UserByEmail(users, creds.email) # {}
           /\ creds.password \notin RegisteredPasswords(creds.email))
            => (resp'.status = 401 /\ resp'.token = <<>> /\ held' = held)
       /\ users' = users

C5_LoginFailures == [][\A creds \in LoginInputs : C5_LoginStep(creds)]_vars

\* the case of C5: a login with the wrong password for a stored user was
\* answered 401 without a token
C5_WrongPasswordRefused ==
    /\ resp.op = "login" /\ resp.status = 401 /\ resp.token = <<>>
    /\ UserByEmail(users, resp.creds.email) # {}
    /\ resp.creds.password \notin RegisteredPasswords(resp.creds.email)

\* the tokens POST /login can have issued by the time t and that have not
\* expired at t
IssueTimes == {k * ExpiresIn * 1000 : k \in 0..MaxHours}

LiveTokens(t) ==
    { JwtSign(users[i].id, users[i].email, JWT_SECRET, t0) :
        i \in 1..Len(users),
        t0 \in {x \in IssueTimes : x <= t /\ t < x + ExpiresIn * 1000} }

\* the header carries no token where the gate looks for one
NoToken(header) ==
    ~header.present \/ header.scheme = "" \/ header.token = <<>>

\* C6: in app.js the handler of GET /locations runs only for a request whose
\* Authorization header carries a token that login issued and that has not
\* expired, with that token's id and email attached to the request; a
\* request without a token is answered 401, one with any other token
\* (malformed, expired, not signed with the secret) is answered 403, and in
\* both cases the handler does not run and the store is not read.
C6_GateStep(header) ==
    (server = "app.js" /\ resp'.op = "locations" /\ resp'.header = header
     /\ GetLocations(header))
    => /\ resp'.handlerRan
            => /\ ~NoToken(header)
               /\ header.token[1] \in LiveTokens(now)
               /\ resp'.status = 200
               /\ resp'.reqUser # <<>>
               /\ resp'.reqUser[1].id = header.token[1].payload.id
               /\ resp'.reqUser[1].email = header.token[1].payload.email
       /\ NoToken(header)
            => (resp'.status = 401 /\ ~resp'.handlerRan /\ resp'.storeReads = 0)
       /\ (~NoToken(header) /\ header.token[1] \notin LiveTokens(now))
            => (resp'.status = 403 /\ ~resp'.handlerRan /\ resp'.storeReads = 0)

C6_AuthorizationGate ==
    [][\A header \in Headers(held, now) : C6_GateStep(header)]_vars

\* the case of C6: a token that login issued was refused once it had expired
C6_ExpiredTokenRefused ==
    /\ server = "app.js"
    /\ resp.op = "locations" /\ resp.status = 403 /\ ~resp.handlerRan
    /\ resp.header.token # <<>>
    /\ \E i \in 1..Len(users) :
         resp.header.token[1] =
            JwtSign(users[i].id, users[i].email, JWT_SECRET, 0)

\* a JSON number within the ranges, bounds included
InRange(body) ==
    /\ body.latitude.t = "number" /\ body.longitude.t = "number"
    /\ -MaxLat <= body.latitude.n /\ body.latitude.n <= MaxLat
    /\ -MaxLon <= body.longitude.n /\ body.longitude.n <= MaxLon

\* the sample stored last: the one of the latest successful submit
LastStored == locations[Len(locations)]

\* Every request that changes the Location collection overwrites resp, so a
\* response of GET /locations held in resp was computed from the collection
\* as it is, and a response of POST /send-location is that of the latest
\* submit: the claims about them are stated on resp.

\* the response to a submit within the ranges: 200, with the sample as it
\* was stored, its fresh id and its timestamp
C7_SubmitStored ==
    (resp.op = "send-location" /\ InRange(resp.body))
    => /\ resp.status = 200
       /\ resp.location = <<LastStored>>
       /\ \A i \in 1..(Len(locations) - 1) : locations[i].id # LastStored.id
       /\ LastStored.createdAt <= now
       /\ LastStored.latitude = resp.body.latitude.n
       /\ LastStored.longitude = resp.body.longitude.n

\* C7, as claimed: every submit of a latitude in [-90, 90] and a longitude
\* in [-180, 180] is answered 200 with the stored sample, its id and its
\* timestamp, and a listing after it, with no submit in between, returns
\* that sample as its first entry.
C7_NewestIsFirst ==
    /\ C7_SubmitStored
    /\ (resp.op = "locations" /\ resp.status = 200 /\ locations # <<>>)
         => resp.list[1] = LastStored

\* C7, amended: ... and a listing after it, with no submit in between,
\* returns no sample with a later createdAt than that sample's, starts with
\* a sample of that createdAt, and starts with that sample when no other
\* stored sample has the same createdAt.
C7_NewestAmongFirst ==
    /\ C7_SubmitStored
    /\ (resp.op = "locations" /\ resp.status = 200 /\ locations # <<>>)
         => /\ \A k \in 1..Len(resp.list) :
                 resp.list[k].createdAt <= LastStored.createdAt
            /\ resp.list[1].createdAt = LastStored.createdAt
            /\ (\A i \in 1..(Len(locations) - 1) :
                   locations[i].createdAt # LastStored.createdAt)
                 => resp.list[1] = LastStored

\* the case of C7: a sample was submitted in the millisecond of an earlier
\* one, and the listing after it starts with the earlier one
C7_TiedSampleListedSecond ==
    /\ resp.op = "locations" /\ resp.status = 200
    /\ accepted > 0
    /\ Len(resp.list) > 1
    /\ resp.list[1] # LastStored
    /\ resp.list[2] = LastStored

\* a field that is missing, is not a finite JSON number, or is out of range
Invalid(body) ==
    \/ body.latitude.t # "number" \/ body.longitude.t # "number"
    \/ body.latitude.n < -MaxLat \/ body.latitude.n > MaxLat
    \/ body.longitude.n < -MaxLon \/ body.longitude.n > MaxLon

\* C8: a submit whose latitude or longitude is missing, is not a finite
\* number or is out of its range is answered 400, and the Location
\* collection is as it was.
C8_RejectStep(body) ==
    (resp'.op = "send-location" /\ resp'.body = body /\ Invalid(body)
     /\ SendLocation(body))
    => (resp'.status = 400 /\ locations' = locations)

C8_InvalidRejected == [][\A body \in LocationBodies : C8_RejectStep(body)]_vars

Descending(list, strict) ==
    \A k \in 1..(Len(list) - 1) :
        IF strict THEN list[k].createdAt > list[k + 1].createdAt
        ELSE list[k].createdAt >= list[k + 1].createdAt

\* the listing holds min(10, stored) distinct stored samples, none older
\* than a stored sample it leaves out
TheMostRecent(list) ==
    /\ Len(list) = Min(Limit, Len(locations))
    /\ \A k \in 1..Len(list) : list[k] \in SeqToSet(locations)
    /\ \A k, m \in 1..Len(list) : list[k] = list[m] => k = m
    /\ \A x \in SeqToSet(locations) \ SeqToSet(list) :
         \A k \in 1..Len(list) : x.createdAt <= list[k].createdAt

\* C9, as claimed: the listing returns min(10, stored) samples, those with
\* the greatest createdAt, in strictly descending order of createdAt.
C9_StrictlyDescending ==
    (resp.op = "locations" /\ resp.status = 200)
    => (TheMostRecent(resp.list) /\ Descending(resp.list, TRUE))

\* C9, amended: the listing returns min(10, stored) samples, those with the
\* greatest createdAt, in descending order of createdAt; samples of one
\* createdAt follow each other in any order.
C9_Descending ==
    (resp.op = "locations" /\ resp.status = 200)
    => (TheMostRecent(resp.list) /\ Descending(resp.list, FALSE))

\* the case of C9: more than 10 samples are stored, 10 were listed, two of
\* them with one createdAt
C9_LimitedListWithTie ==
    /\ resp.op = "locations" /\ resp.status = 200
    /\ Len(locations) > Limit /\ Len(resp.list) = Limit
    /\ resp.list[1].createdAt = resp.list[2].createdAt

\* C10: the server listens only once the store is connected, has answered
\* no request while it was not, and has taken none in.
C10_NoTrafficWithoutStore ==
    /\ listening => Connected
    /\ served = 0
    /\ ~Connected => \A r \in Slots : reg[r].pc = "idle"


\* the GET routes the entry file declares
DeclaredGet ==
    { Layers(server, env)[i].path : i \in
        { j \in 1..Len(Layers(server, env)) :
            /\ Layers(server, env)[j].method = "GET"
            /\ Layers(server, env)[j].kind = "route"
            /\ Layers(server, env)[j].path # "*" } }

\* C11: in production a GET for a path that has an API route is answered by
\* that route's handler, never by the client's entry document, a static
\* file or a 404: the fallback answers only paths without an API route.
C11_FallbackOnlyUnmatched ==
    (env = "production" /\ resp.op \in {"spa", "static", "notFound"})
    => resp.path \notin DeclaredGet

====
